---- MODULE Spec2Model ----
(***************************************************************************)
(* Model of the task processor (src/src/task_processor.py): the schema     *)
(* validator validate_item, the input validator validate_input, the        *)
(* enricher process_items, the file collaborators read_input_file and      *)
(* write_output_file, and the orchestrator process_command.                *)
(*                                                                         *)
(* Decoded JSON values are records [t, v]: t is the Python type name       *)
(* (type(x).__name__) and v the payload.  A str is a sequence of           *)
(* characters, a dict a function over FieldNames in which a key that is    *)
(* not in the dict maps to Absent.  An exception message is the sequence   *)
(* of the pieces of the f-string that builds it; Render joins them.        *)
(***************************************************************************)
EXTENDS Integers, Sequences, FiniteSets, TLC

VARIABLES
    pc,               \* position of process_command: read, validate, process, write, done
    input_file,       \* what the reader collaborator finds at input_path
    output_file,      \* content of the file at output_path
    output_before,    \* content of the file at output_path when the run started
    data,             \* local `data` of process_command
    validated_items,  \* local `validated_items` of process_command
    processed_items,  \* local `processed_items` of process_command
    log,              \* records emitted on the module logger, in order
    exit_code,        \* <<>> while running, <<status>> once process_command returned
    raised,           \* the exception a stage raised, with the stage that raised it
    calls,            \* the stages process_command has started, in order
    lib,              \* a direct (library) call of one function: arguments and result
    frames,           \* the activation of validate_input each concurrent caller is in
    seen_sets,        \* the seen_ids set of each activation of validate_input
    heap,             \* the dict objects that exist, in the order they were created
    enrich,           \* the activation of process_items: its argument and its locals
    returned          \* the lists the finished calls of process_items returned

vars == <<pc, input_file, output_file, output_before, data, validated_items,
          processed_items, log, exit_code, raised, calls, lib, frames, seen_sets,
          heap, enrich, returned>>

pipeVars == <<pc, input_file, output_file, output_before, data, validated_items,
              processed_items, log, exit_code, raised, calls>>

callVars == <<frames, seen_sets>>
enrichVars == <<heap, enrich, returned>>

----------------------------------------------------------------------------
(* Bounds *)

MaxLen == 3        \* longest input array
IdCount == 3       \* integer ids are 0..IdCount-1
MaxNameLen == 2    \* longest name string
MaxCalls == 2      \* direct calls of process_items on one list
MaxCallLen == 2    \* longest array given to a concurrent validate_input call

----------------------------------------------------------------------------
(* Decoded JSON values *)

PyInt(n) == [t |-> "int", v |-> n]
PyBool(b) == [t |-> "bool", v |-> b]
PyFloat(s) == [t |-> "float", v |-> s]
PyStr(s) == [t |-> "str", v |-> s]
PyNone == [t |-> "NoneType", v |-> "None"]
PyList(s) == [t |-> "list", v |-> s]
PyDict(f) == [t |-> "dict", v |-> f]
Absent == [t |-> "absent", v |-> "absent"]

\* the keys a dict of the model may hold
FieldNames == {"id", "name", "value", "extra", "processed", "name_length"}

\* a dict literal: the keys of f, every other key absent
MkDict(f) == PyDict([k \in FieldNames |-> IF k \in DOMAIN f THEN f[k] ELSE Absent])

\* isinstance(x, dict), isinstance(x, list), isinstance(x, str), isinstance(x, bool)
IsDict(x) == x.t = "dict"
IsList(x) == x.t = "list"
IsStr(x) == x.t = "str"
\* (variant: the bool guard forgotten, bool passing as the int it subclasses)
IsBool_unguarded(x) == FALSE
IsBool(x) == x.t = "bool"
\* isinstance(x, int): bool is a subclass of int
IsInstanceInt(x) == x.t \in {"int", "bool"}
\* isinstance(x, (int, float))
IsInstanceIntOrFloat(x) == x.t \in {"int", "bool", "float"}
\* type(x).__name__
TypeName(x) == x.t
\* field in item
HasKey(item, field) == item.v[field] # Absent

\* the characters str.strip() removes: those for which str.isspace() holds.
\* Space, tab, line feed, carriage return and form feed are written with their
\* escapes; U+000B, U+001C..U+001F, U+0085 and U+00A0 stand in the second set
\* as the characters themselves; the characters above U+00FF, which a string
\* of this language cannot hold, stand in the third set under their code
\* point names.
Whitespace ==
    {" ", "\t", "\n", "\r", "\f"}
    \cup {"", "", "", "", "", "", " "}
    \cup {"U+1680", "U+2000", "U+2001", "U+2002", "U+2003", "U+2004",
          "U+2005", "U+2006", "U+2007", "U+2008", "U+2009", "U+200A",
          "U+2028", "U+2029", "U+202F", "U+205F", "U+3000"}

RECURSIVE lstrip(_)
lstrip(s) ==
    IF s = <<>> THEN <<>>
    ELSE IF Head(s) \in Whitespace THEN lstrip(Tail(s))
    ELSE s

RECURSIVE rstrip(_)
rstrip(s) ==
    IF s = <<>> THEN <<>>
    ELSE IF s[Len(s)] \in Whitespace THEN rstrip(SubSeq(s, 1, Len(s) - 1))
    ELSE s

\* (variant: the emptiness test applied to the name as given, not trimmed)
strip_omitted(s) == s

\* str.strip()
strip(s) == rstrip(lstrip(s))

\* the text of a message built from the pieces of its f-string
RECURSIVE Render(_)
Render(msg) == IF msg = <<>> THEN "" ELSE Head(msg) \o Render(Tail(msg))

\* the outcome of a call: a returned value or a raised exception
Return(val) == [ok |-> TRUE, exc |-> "", msg |-> <<>>, value |-> val]
Raise(cls, msg) == [ok |-> FALSE, exc |-> cls, msg |-> msg, value |-> <<>>]

----------------------------------------------------------------------------
(* Schema validator *)

ValidationError == "ValidationError"

required_fields == <<"id", "name", "value">>

\* the first field of required_fields that is not in item (0 when none is missing):
\* the loop `for field in required_fields: if field not in item`
FirstMissing(item) ==
    IF \E i \in 1..Len(required_fields) : ~HasKey(item, required_fields[i])
    THEN CHOOSE i \in 1..Len(required_fields) :
            /\ ~HasKey(item, required_fields[i])
            /\ \A j \in 1..(i - 1) : HasKey(item, required_fields[j])
    ELSE 0

ItemAt(index) == <<"Item at index ", ToString(index)>>

\* the argument item of validate_item after the call: the function tests and
\* reads item and assigns to none of its keys
validate_item_input(item) == item

\* (variant: the item itself is returned once it passed the checks)
validate_item_returns_input(item, index) ==
    IF ~IsDict(item)
    THEN Raise(ValidationError, ItemAt(index) \o <<" is not an object">>)
    ELSE IF FirstMissing(item) # 0
    THEN Raise(ValidationError,
               ItemAt(index) \o <<" is missing required field '",
                                  required_fields[FirstMissing(item)], "'">>)
    ELSE IF IsBool(item.v["id"]) \/ ~IsInstanceInt(item.v["id"])
    THEN Raise(ValidationError,
               ItemAt(index) \o <<": 'id' must be an integer, got ",
                                  TypeName(item.v["id"])>>)
    ELSE IF ~IsStr(item.v["name"])
    THEN Raise(ValidationError,
               ItemAt(index) \o <<": 'name' must be a string, got ",
                                  TypeName(item.v["name"])>>)
    ELSE IF strip(item.v["name"].v) = <<>>
    THEN Raise(ValidationError,
               ItemAt(index) \o <<": 'name' must be a non-empty string">>)
    ELSE IF ~IsInstanceIntOrFloat(item.v["value"])
    THEN Raise(ValidationError,
               ItemAt(index) \o <<": 'value' must be numeric, got ",
                                  TypeName(item.v["value"])>>)
    ELSE IF IsBool(item.v["value"])
    THEN Raise(ValidationError,
               ItemAt(index) \o <<": 'value' must be numeric, got bool">>)
    ELSE Return(item)

validate_item(item, index) ==
    IF ~IsDict(item)
    THEN Raise(ValidationError, ItemAt(index) \o <<" is not an object">>)
    ELSE IF FirstMissing(item) # 0
    THEN Raise(ValidationError,
               ItemAt(index) \o <<" is missing required field '",
                                  required_fields[FirstMissing(item)], "'">>)
    ELSE IF IsBool(item.v["id"]) \/ ~IsInstanceInt(item.v["id"])
    THEN Raise(ValidationError,
               ItemAt(index) \o <<": 'id' must be an integer, got ",
                                  TypeName(item.v["id"])>>)
    ELSE IF ~IsStr(item.v["name"])
    THEN Raise(ValidationError,
               ItemAt(index) \o <<": 'name' must be a string, got ",
                                  TypeName(item.v["name"])>>)
    ELSE IF strip(item.v["name"].v) = <<>>
    THEN Raise(ValidationError,
               ItemAt(index) \o <<": 'name' must be a non-empty string">>)
    ELSE IF ~IsInstanceIntOrFloat(item.v["value"])
    THEN Raise(ValidationError,
               ItemAt(index) \o <<": 'value' must be numeric, got ",
                                  TypeName(item.v["value"])>>)
    ELSE IF IsBool(item.v["value"])
    THEN Raise(ValidationError,
               ItemAt(index) \o <<": 'value' must be numeric, got bool">>)
    ELSE Return(MkDict([id |-> item.v["id"],
                        name |-> item.v["name"],
                        value |-> item.v["value"]]))

----------------------------------------------------------------------------
(* Input validator *)

\* (variant: the id of an accepted item is not added to seen_ids)
RECURSIVE validate_loop_forgets_ids(_, _, _, _)
validate_loop_forgets_ids(items, index, seen_ids, validated) ==
    IF index >= Len(items)
    THEN Return(validated)
    ELSE LET r == validate_item(items[index + 1], index) IN
         IF ~r.ok
         THEN r
         ELSE IF r.value.v["id"] \in seen_ids
         THEN Raise(ValidationError,
                    <<"Duplicate id found: ", ToString(r.value.v["id"].v)>>)
         ELSE validate_loop_forgets_ids(items, index + 1, seen_ids,
                                        Append(validated, r.value))

\* (variant: an accepted item is inserted at the front of validated_items)
RECURSIVE validate_loop_prepends(_, _, _, _)
validate_loop_prepends(items, index, seen_ids, validated) ==
    IF index >= Len(items)
    THEN Return(validated)
    ELSE LET r == validate_item(items[index + 1], index) IN
         IF ~r.ok
         THEN r
         ELSE IF r.value.v["id"] \in seen_ids
         THEN Raise(ValidationError,
                    <<"Duplicate id found: ", ToString(r.value.v["id"].v)>>)
         ELSE validate_loop_prepends(items, index + 1,
                                     seen_ids \cup {r.value.v["id"]},
                                     <<r.value>> \o validated)

\* (variant: the id is looked up in seen_ids before the item is validated)
RECURSIVE validate_loop_duplicate_first(_, _, _, _)
validate_loop_duplicate_first(items, index, seen_ids, validated) ==
    IF index >= Len(items)
    THEN Return(validated)
    ELSE IF IsDict(items[index + 1]) /\ items[index + 1].v["id"] \in seen_ids
    THEN Raise(ValidationError,
               <<"Duplicate id found: ", ToString(items[index + 1].v["id"].v)>>)
    ELSE LET r == validate_item(items[index + 1], index) IN
         IF ~r.ok
         THEN r
         ELSE validate_loop_duplicate_first(items, index + 1,
                                            seen_ids \cup {r.value.v["id"]},
                                            Append(validated, r.value))

\* the loop of validate_input from position index (0-based) on, with the ids
\* seen and the items validated so far
RECURSIVE validate_loop(_, _, _, _)
validate_loop(items, index, seen_ids, validated) ==
    IF index >= Len(items)
    THEN Return(validated)
    ELSE LET r == validate_item(items[index + 1], index) IN
         IF ~r.ok
         THEN r
         ELSE IF r.value.v["id"] \in seen_ids
         THEN Raise(ValidationError,
                    <<"Duplicate id found: ", ToString(r.value.v["id"].v)>>)
         ELSE validate_loop(items, index + 1,
                            seen_ids \cup {r.value.v["id"]},
                            Append(validated, r.value))

\* (variant: a top-level object is taken as an array of one record)
validate_input_wraps_object(d) ==
    IF IsDict(d) THEN validate_loop(<<d>>, 0, {}, <<>>)
    ELSE IF ~IsList(d)
    THEN Raise(ValidationError, <<"Input must be a JSON array">>)
    ELSE validate_loop(d.v, 0, {}, <<>>)

validate_input(d) ==
    IF ~IsList(d)
    THEN Raise(ValidationError, <<"Input must be a JSON array">>)
    ELSE validate_loop(d.v, 0, {}, <<>>)

----------------------------------------------------------------------------
(* Enricher *)

\* (variant: name_length counts the trimmed name)
processed_item_trimmed(item) ==
    MkDict([id |-> item.v["id"],
            name |-> item.v["name"],
            value |-> item.v["value"],
            processed |-> PyBool(TRUE),
            name_length |-> PyInt(Len(strip(item.v["name"].v)))])

\* the dict process_items builds for one item
processed_item(item) ==
    MkDict([id |-> item.v["id"],
            name |-> item.v["name"],
            value |-> item.v["value"],
            processed |-> PyBool(TRUE),
            name_length |-> PyInt(Len(item.v["name"].v))])

\* the argument list of process_items after the call: the function reads
\* item['id'], item['name'], item['value'] and assigns to no item and not to items
process_items_input(items) == items

\* the list process_items returns
process_items(items) == [i \in 1..Len(items) |-> processed_item(items[i])]

\* (variant: the message is built before the loop has filled `processed`)
process_items_info_before_loop(items) ==
    <<"Successfully processed ", ToString(0), " items">>

\* the message process_items logs before it returns
process_items_info(items) ==
    <<"Successfully processed ", ToString(Len(process_items(items))), " items">>

----------------------------------------------------------------------------
(* File collaborators *)

input_path == "in.json"
output_path == "out.json"

\* a local of process_command that is not assigned yet
Unset == [t |-> "unset", v |-> "unset"]

\* file contents that are not the JSON document the writer produces
OldContent == [t |-> "text", v |-> "old"]
PartialContent == [t |-> "text", v |-> "partial"]

\* read_input_file: open + json.load, every failure mapped to ValidationError
read_input_file(file) ==
    IF file.kind = "ok" THEN Return(file.data)
    ELSE IF file.kind = "FileNotFoundError"
    THEN Raise(ValidationError, <<"Input file not found: ", input_path>>)
    ELSE IF file.kind = "JSONDecodeError"
    THEN Raise(ValidationError, <<"Invalid JSON in input file: ", file.detail>>)
    ELSE IF file.kind = "PermissionError"
    THEN Raise(ValidationError, <<"Permission denied reading file: ", input_path>>)
    ELSE Raise(ValidationError, <<"Error reading input file: ", file.detail>>)

\* the outcomes of open(output_path, 'w') + json.dump: success, the open
\* refused, the open failing otherwise, the write failing after the open
WriteOutcomes == {"ok", "PermissionError", "IsADirectoryError", "OSError"}

\* str(e) of the exception the writer collaborator raised
write_error_text(outcome) ==
    IF outcome = "IsADirectoryError"
    THEN "[Errno 21] Is a directory: 'out.json'"
    ELSE "[Errno 28] No space left on device"

\* write_output_file: every failure mapped to ValidationError
write_output_file(outcome, items) ==
    IF outcome = "ok" THEN Return(<<>>)
    ELSE IF outcome = "PermissionError"
    THEN Raise(ValidationError, <<"Permission denied writing to file: ", output_path>>)
    ELSE Raise(ValidationError,
               <<"Error writing output file: ", write_error_text(outcome)>>)

\* the file at output_path after write_output_file: open(..., 'w') truncates
\* it, so a failure after the open leaves a partial document
written_file(outcome, items, before) ==
    IF outcome = "ok" THEN [t |-> "json", v |-> items]
    ELSE IF outcome = "OSError" THEN PartialContent
    ELSE before

----------------------------------------------------------------------------
(* Inputs of the orchestrator *)

\* characters of a name: a letter, and whitespace of three kinds
Chars == {"a", " ", "\t", "\n"}

PipeIds == {PyInt(n) : n \in 0..(IdCount - 1)}
PipeNames == {PyStr(<<"a">>), PyStr(<<" ", "a">>), PyStr(<<" ">>)}
PipeValues == {PyInt(1), PyBool(TRUE)}

\* array elements: objects with the three fields, and one value that is no object
PipeItems ==
    {MkDict([id |-> i, name |-> n, value |-> x]) :
        i \in PipeIds, n \in PipeNames, x \in PipeValues} \cup {PyNone}

\* top-level values that are no array: object, string, number, boolean, null
NonArrays ==
    {MkDict([id |-> PyInt(1), name |-> PyStr(<<"a">>), value |-> PyInt(1)]),
     PyStr(<<"a">>), PyInt(1), PyFloat("1.5"), PyBool(TRUE), PyNone}

OkFile(d) == [kind |-> "ok", data |-> d, detail |-> ""]

\* the ways the reader collaborator fails
FailedFiles ==
    {[kind |-> "FileNotFoundError", data |-> Absent, detail |-> ""],
     [kind |-> "JSONDecodeError", data |-> Absent,
      detail |-> "Expecting value: line 1 column 1 (char 0)"],
     [kind |-> "PermissionError", data |-> Absent, detail |-> ""],
     [kind |-> "IsADirectoryError", data |-> Absent, detail |-> "[Errno 21] Is a directory: 'in.json'"]}

NoCall == [fn |-> "", args |-> <<>>, rets |-> <<>>]

\* the callers that may be inside validate_input at the same time
Callers == {"A", "B"}

\* a caller that is not inside validate_input and has not called it yet
NoResult == [ok |-> FALSE, exc |-> "", msg |-> <<>>, value |-> <<>>]
IdleFrame ==
    [state |-> "idle", data |-> Unset, index |-> 0, validated_items |-> <<>>,
     ret |-> NoResult]
IdleFrames == [c \in Callers |-> IdleFrame]
NoExc == [stage |-> "", exc |-> "", msg |-> <<>>]

\* process_items has not been given a list
NoEnrich ==
    [state |-> "idle", validated |-> <<>>, items |-> <<>>, index |-> 0,
     processed |-> <<>>]

----------------------------------------------------------------------------
(* Orchestrator: process_command *)

Init ==
    /\ pc = "read"
    /\ \/ \E n \in 0..MaxLen : \E s \in [1..n -> PipeItems] :
             input_file = OkFile(PyList(s))
       \/ \E d \in NonArrays : input_file = OkFile(d)
       \/ input_file \in FailedFiles
    /\ output_before \in {Absent, OldContent}
    /\ output_file = output_before
    /\ data = Unset
    /\ validated_items = Unset
    /\ processed_items = Unset
    /\ log = <<>>
    /\ exit_code = <<>>
    /\ raised = NoExc
    /\ calls = <<>>
    /\ lib = NoCall
    /\ frames = IdleFrames
    /\ seen_sets = [c \in Callers |-> {}]
    /\ heap = <<>>
    /\ enrich = NoEnrich
    /\ returned = <<>>

Info(msg) == [level |-> "INFO", msg |-> msg]
Error(msg) == [level |-> "ERROR", msg |-> msg]

\* (variant: only `except ValidationError`; any other exception leaves
\* process_command without a return value)
Handler_validation_only(stage, r, logged) ==
    /\ raised' = [stage |-> stage, exc |-> r.exc, msg |-> r.msg]
    /\ IF r.exc = ValidationError
       THEN /\ log' = Append(logged, Error(<<"Validation error: ">> \o r.msg))
            /\ exit_code' = <<1>>
       ELSE UNCHANGED <<log, exit_code>>
    /\ pc' = "done"

\* (variant: a try/except around the read alone, after which the run goes on)
Handler_continues(stage, r, logged) ==
    /\ raised' = [stage |-> stage, exc |-> r.exc, msg |-> r.msg]
    /\ log' = Append(logged,
                     IF r.exc = ValidationError
                     THEN Error(<<"Validation error: ">> \o r.msg)
                     ELSE Error(<<"Unexpected error: ">> \o r.msg))
    /\ exit_code' = IF stage = "read" THEN <<>> ELSE <<1>>
    /\ pc' = IF stage = "read" THEN "validate" ELSE "done"

\* the except clauses of process_command: log at error severity, return 1
Handler(stage, r, logged) ==
    /\ raised' = [stage |-> stage, exc |-> r.exc, msg |-> r.msg]
    /\ log' = Append(logged,
                     IF r.exc = ValidationError
                     THEN Error(<<"Validation error: ">> \o r.msg)
                     ELSE Error(<<"Unexpected error: ">> \o r.msg))
    /\ exit_code' = <<1>>
    /\ pc' = "done"

ReadInput ==
    /\ pc = "read"
    /\ calls' = Append(calls, "read")
    /\ LET r == read_input_file(input_file) IN
       IF r.ok
       THEN /\ data' = r.value
            /\ log' = Append(log, Info(<<"Successfully read input file: ", input_path>>))
            /\ pc' = "validate"
            /\ UNCHANGED <<exit_code, raised>>
       ELSE /\ Handler("read", r, log)
            /\ UNCHANGED data
    /\ UNCHANGED <<input_file, output_file, output_before, validated_items,
                   processed_items, lib, callVars, enrichVars>>

\* (variant: the output file is opened for writing before validation ends)
ValidateInput_opens_output ==
    /\ pc = "validate"
    /\ calls' = Append(calls, "validate")
    /\ LET r == validate_input(data) IN
       IF r.ok
       THEN /\ validated_items' = PyList(r.value)
            /\ pc' = "process"
            /\ UNCHANGED <<log, exit_code, raised>>
       ELSE /\ Handler("validate", r, log)
            /\ UNCHANGED validated_items
    /\ output_file' = PartialContent
    /\ UNCHANGED <<input_file, output_before, data, processed_items, lib, callVars, enrichVars>>

ValidateInput ==
    /\ pc = "validate"
    /\ calls' = Append(calls, "validate")
    /\ LET r == validate_input(data) IN
       IF r.ok
       THEN /\ validated_items' = PyList(r.value)
            /\ pc' = "process"
            /\ UNCHANGED <<log, exit_code, raised>>
       ELSE /\ Handler("validate", r, log)
            /\ UNCHANGED validated_items
    /\ UNCHANGED <<input_file, output_file, output_before, data,
                   processed_items, lib, callVars, enrichVars>>

\* (variant: process_items logs nothing; the count is left to the caller)
ProcessItems_logs_nothing ==
    /\ pc = "process"
    /\ calls' = Append(calls, "process")
    /\ processed_items' = PyList(process_items(validated_items.v))
    /\ pc' = "write"
    /\ UNCHANGED <<input_file, output_file, output_before, data,
                   validated_items, log, exit_code, raised, lib, callVars, enrichVars>>

ProcessItems ==
    /\ pc = "process"
    /\ calls' = Append(calls, "process")
    /\ processed_items' = PyList(process_items(validated_items.v))
    /\ log' = Append(log, Info(process_items_info(validated_items.v)))
    /\ pc' = "write"
    /\ UNCHANGED <<input_file, output_file, output_before, data,
                   validated_items, exit_code, raised, lib, callVars, enrichVars>>

WriteOutput ==
    /\ pc = "write"
    /\ calls' = Append(calls, "write")
    /\ \E outcome \in WriteOutcomes :
          LET r == write_output_file(outcome, processed_items.v) IN
          /\ output_file' = written_file(outcome, processed_items.v, output_file)
          /\ IF r.ok
             THEN /\ log' = Append(log, Info(<<"Successfully wrote output file: ",
                                               output_path>>))
                  /\ exit_code' = <<0>>
                  /\ pc' = "done"
                  /\ UNCHANGED raised
             ELSE Handler("write", r, log)
    /\ UNCHANGED <<input_file, output_before, data, validated_items,
                   processed_items, lib, callVars, enrichVars>>

\* an exception that is no ValidationError (MemoryError, say) raised inside the
\* try block while validate_input or process_items runs
UnexpectedError ==
    /\ pc \in {"validate", "process"}
    /\ calls' = Append(calls, pc)
    /\ Handler(pc, Raise("MemoryError", <<"">>), log)
    /\ UNCHANGED <<input_file, output_file, output_before, data,
                   validated_items, processed_items, lib, callVars, enrichVars>>

Next == ReadInput \/ ValidateInput \/ ProcessItems \/ WriteOutput \/ UnexpectedError

Spec == Init /\ [][Next]_vars

----------------------------------------------------------------------------
(* Direct calls of validate_item, validate_input and process_items, as a     *)
(* caller that imports the module makes them                                 *)

Strings == UNION {[1..n -> Chars] : n \in 0..MaxNameLen}

ItemIds ==
    {Absent, PyBool(TRUE), PyBool(FALSE), PyStr(<<"a">>), PyFloat("1.5"), PyNone}
    \cup {PyInt(n) : n \in 0..(IdCount - 1)}
ItemNames ==
    {Absent, PyInt(1), PyBool(TRUE), PyNone} \cup {PyStr(s) : s \in Strings}
ItemValues ==
    {Absent, PyInt(1), PyFloat("1.5"), PyBool(TRUE), PyBool(FALSE),
     PyStr(<<"a">>), PyNone, PyList(<<>>)}
ItemExtras == {Absent, PyInt(1)}

\* values that are no object: null, string, number, boolean, array
NonObjects ==
    {PyNone, PyStr(<<"a">>), PyInt(1), PyFloat("1.5"), PyBool(TRUE), PyList(<<>>)}

InitLib ==
    /\ pc = "lib"
    /\ input_file = OkFile(PyList(<<>>))
    /\ output_before = Absent
    /\ output_file = Absent
    /\ data = Unset
    /\ validated_items = Unset
    /\ processed_items = Unset
    /\ log = <<>>
    /\ exit_code = <<>>
    /\ raised = NoExc
    /\ calls = <<>>
    /\ lib = NoCall
    /\ frames = IdleFrames
    /\ seen_sets = [c \in Callers |-> {}]
    /\ heap = <<>>
    /\ enrich = NoEnrich
    /\ returned = <<>>

\* validate_item(item, index) on an object; args[3] is the object as the call
\* has left it
CallValidateItem ==
    /\ pc = "lib" /\ lib = NoCall
    /\ \E i \in ItemIds, n \in ItemNames, x \in ItemValues, e \in ItemExtras,
          index \in 0..(MaxLen - 1) :
          LET item == MkDict([id |-> i, name |-> n, value |-> x, extra |-> e]) IN
          lib' = [fn |-> "validate_item",
                  args |-> <<item, index, validate_item_input(item)>>,
                  rets |-> <<validate_item(item, index)>>]
    /\ UNCHANGED <<pipeVars, callVars, enrichVars>>

\* validate_item(item, index) on a value that is no object
CallValidateItemNonObject ==
    /\ pc = "lib" /\ lib = NoCall
    /\ \E item \in NonObjects, index \in 0..(MaxLen - 1) :
          lib' = [fn |-> "validate_item",
                  args |-> <<item, index, validate_item_input(item)>>,
                  rets |-> <<validate_item(item, index)>>]
    /\ UNCHANGED <<pipeVars, callVars, enrichVars>>

\* validate_input(data) on an array
CallValidateInput ==
    /\ pc = "lib" /\ lib = NoCall
    /\ \E n \in 0..MaxLen : \E s \in [1..n -> PipeItems] :
          lib' = [fn |-> "validate_input", args |-> <<PyList(s)>>,
                  rets |-> <<validate_input(PyList(s))>>]
    /\ UNCHANGED <<pipeVars, callVars, enrichVars>>

\* validate_input(data) on a value that is no array
CallValidateInputNonArray ==
    /\ pc = "lib" /\ lib = NoCall
    /\ \E d \in NonArrays :
          lib' = [fn |-> "validate_input", args |-> <<d>>,
                  rets |-> <<validate_input(d)>>]
    /\ UNCHANGED <<pipeVars, callVars, enrichVars>>

\* process_items(items) on the list a successful validate_input returned, and
\* again on the same list; args[1] is the list as validate_input returned it,
\* args[2] the same list object as the calls so far have left it
CallProcessItems ==
    /\ pc = "lib"
    /\ \/ /\ lib.fn = "validate_input" /\ lib.rets[1].ok
          /\ lib' = [fn |-> "process_items",
                     args |-> <<PyList(lib.rets[1].value),
                                PyList(process_items_input(lib.rets[1].value))>>,
                     rets |-> <<process_items(lib.rets[1].value)>>]
          /\ log' = Append(log, Info(process_items_info(lib.rets[1].value)))
       \/ /\ lib.fn = "process_items" /\ Len(lib.rets) < MaxCalls
          /\ lib' = [lib EXCEPT
                        !.args[2] = PyList(process_items_input(lib.args[2].v)),
                        !.rets = Append(@, process_items(lib.args[2].v))]
          /\ log' = Append(log, Info(process_items_info(lib.args[2].v)))
    /\ UNCHANGED <<pc, input_file, output_file, output_before, data,
                   validated_items, processed_items, exit_code, raised, calls,
                   callVars, enrichVars>>

NextLib ==
    CallValidateItem \/ CallValidateItemNonObject \/ CallValidateInput
    \/ CallValidateInputNonArray \/ CallProcessItems

SpecLib == InitLib /\ [][NextLib]_vars

----------------------------------------------------------------------------
(* Two callers inside validate_input at the same time, each call running its   *)
(* loop one element at a step                                                *)

\* array elements of the concurrent calls: two valid records with different
\* ids, and null
CallItems ==
    {MkDict([id |-> PyInt(i), name |-> PyStr(<<"a">>), value |-> PyInt(1)]) :
        i \in {0, 1}}
    \cup {PyNone}

\* (variant: seen_ids is one module-level set)
seen_scope_module(c) == "A"

\* the set the activation of caller c uses as seen_ids: a local of that
\* activation
seen_scope(c) == c

\* validate_input(data) is entered with an array: validated_items = [],
\* seen_ids = set()
CallStart(c) ==
    /\ frames[c].state \in {"idle", "done"}
    /\ \E n \in 0..MaxCallLen : \E s \in [1..n -> CallItems] :
          frames' = [frames EXCEPT ![c] =
                        [state |-> "loop", data |-> PyList(s), index |-> 0,
                         validated_items |-> <<>>, ret |-> NoResult]]
    /\ seen_sets' = [seen_sets EXCEPT ![seen_scope(c)] = {}]
    /\ UNCHANGED <<pipeVars, lib, enrichVars>>

\* validate_input(data) is entered with a value that is no array and raises
CallStartNonArray(c) ==
    /\ frames[c].state \in {"idle", "done"}
    /\ \E d \in {PyNone, PyInt(1)} :
          frames' = [frames EXCEPT ![c] =
                        [state |-> "done", data |-> d, index |-> 0,
                         validated_items |-> <<>>,
                         ret |-> Raise(ValidationError,
                                       <<"Input must be a JSON array">>)]]
    /\ UNCHANGED <<pipeVars, lib, seen_sets, enrichVars>>

\* one iteration of `for index, item in enumerate(data)`
LoopStep(c) ==
    /\ frames[c].state = "loop"
    /\ frames[c].index < Len(frames[c].data.v)
    /\ LET f == frames[c]
           r == validate_item(f.data.v[f.index + 1], f.index)
       IN  IF ~r.ok
           THEN /\ frames' = [frames EXCEPT ![c].state = "done", ![c].ret = r]
                /\ UNCHANGED seen_sets
           ELSE IF r.value.v["id"] \in seen_sets[seen_scope(c)]
           THEN /\ frames' = [frames EXCEPT
                                 ![c].state = "done",
                                 ![c].ret =
                                    Raise(ValidationError,
                                          <<"Duplicate id found: ",
                                            ToString(r.value.v["id"].v)>>)]
                /\ UNCHANGED seen_sets
           ELSE /\ seen_sets' = [seen_sets EXCEPT
                                    ![seen_scope(c)] = @ \cup {r.value.v["id"]}]
                /\ frames' = [frames EXCEPT
                                 ![c].index = @ + 1,
                                 ![c].validated_items = Append(@, r.value)]
    /\ UNCHANGED <<pipeVars, lib, enrichVars>>

\* the loop is exhausted: return validated_items
CallReturn(c) ==
    /\ frames[c].state = "loop"
    /\ frames[c].index >= Len(frames[c].data.v)
    /\ frames' = [frames EXCEPT
                     ![c].state = "done",
                     ![c].ret = Return(frames[c].validated_items)]
    /\ UNCHANGED <<pipeVars, lib, seen_sets, enrichVars>>

NextCalls ==
    \E c \in Callers :
        CallStart(c) \/ CallStartNonArray(c) \/ LoopStep(c) \/ CallReturn(c)

SpecCalls == InitLib /\ [][NextCalls]_vars

----------------------------------------------------------------------------
(* process_items called again and again on one validated list, one loop       *)
(* iteration at a step.  A dict is an object of the heap and a list holds      *)
(* references to dicts, so that a write to an input record or a list kept from *)
(* an earlier call would show                                                  *)

\* the records of the validated lists
EnrichItems ==
    {MkDict([id |-> PyInt(i), name |-> PyStr(n), value |-> x]) :
        i \in {0, 1}, n \in {<<"a">>, <<" ", "a">>, <<"a", " ">>},
        x \in {PyInt(1), PyFloat("1.5")}}

\* (variant: `processed` is a list that outlives the call, such as a default
\* argument value)
processed_initial_kept(previous) == previous

\* processed = []
processed_initial(previous) == <<>>

\* validate_input has returned a list; its records are the first objects of
\* the heap and the list refers to them in order
InitEnrich ==
    /\ pc = "lib"
    /\ input_file = OkFile(PyList(<<>>))
    /\ output_before = Absent
    /\ output_file = Absent
    /\ data = Unset
    /\ validated_items = Unset
    /\ processed_items = Unset
    /\ log = <<>>
    /\ exit_code = <<>>
    /\ raised = NoExc
    /\ calls = <<>>
    /\ lib = NoCall
    /\ frames = IdleFrames
    /\ seen_sets = [c \in Callers |-> {}]
    /\ returned = <<>>
    /\ \E n \in 0..MaxCallLen : \E s \in [1..n -> EnrichItems] :
          /\ validate_input(PyList(s)).ok
          /\ heap = validate_input(PyList(s)).value
          /\ enrich = [state |-> "idle",
                       validated |-> validate_input(PyList(s)).value,
                       items |-> [i \in 1..n |-> i], index |-> 0,
                       processed |-> <<>>]

\* process_items(items) is entered
EnrichStart ==
    /\ enrich.state = "idle"
    /\ Len(returned) < MaxCalls
    /\ enrich' = [enrich EXCEPT !.state = "loop", !.index = 0,
                                !.processed = processed_initial(@)]
    /\ UNCHANGED <<pipeVars, lib, callVars, heap, returned>>

\* one iteration of `for item in items`: a new dict is built from the item's
\* fields and appended to `processed`
EnrichStep ==
    /\ enrich.state = "loop"
    /\ enrich.index < Len(enrich.items)
    /\ LET item == heap[enrich.items[enrich.index + 1]] IN
          /\ heap' = Append(heap, processed_item(item))
          /\ enrich' = [enrich EXCEPT !.index = @ + 1,
                                      !.processed = Append(@, Len(heap) + 1)]
    /\ UNCHANGED <<pipeVars, lib, callVars, returned>>

\* the loop is exhausted: log the count and return `processed`
EnrichReturn ==
    /\ enrich.state = "loop"
    /\ enrich.index >= Len(enrich.items)
    /\ log' = Append(log, Info(<<"Successfully processed ",
                                 ToString(Len(enrich.processed)), " items">>))
    /\ returned' = Append(returned, enrich.processed)
    /\ enrich' = [enrich EXCEPT !.state = "idle"]
    /\ UNCHANGED <<pc, input_file, output_file, output_before, data,
                   validated_items, processed_items, exit_code, raised, calls,
                   lib, callVars, heap>>

NextEnrich == EnrichStart \/ EnrichStep \/ EnrichReturn

SpecEnrich == InitEnrich /\ [][NextEnrich]_vars

----------------------------------------------------------------------------
(* Claims about process_command (specification Spec) *)

AllStages == <<"read", "validate", "process", "write">>

\* C1: process_command always ends by returning a status and no error escapes
\* it: a stage that raised is followed by the return of 1, the status is 0
\* exactly when read, validate, enrich and write all completed (the document is
\* then in the output file), and a run that has not returned can still step.
C1_StatusForEveryOutcome ==
    /\ pc \in {"read", "validate", "process", "write", "done"}
    /\ pc # "done" => (exit_code = <<>> /\ raised = NoExc /\ ENABLED Next)
    /\ pc = "done" => exit_code \in {<<0>>, <<1>>}
    /\ exit_code = <<0>> <=>
          /\ pc = "done" /\ raised = NoExc /\ calls = AllStages
          /\ input_file.kind = "ok" /\ data = input_file.data
          /\ validated_items # Unset /\ processed_items # Unset
          /\ output_file = [t |-> "json", v |-> processed_items.v]
    /\ exit_code = <<1>> <=> (pc = "done" /\ raised # NoExc)

\* a run stopped by an error that is no ValidationError has returned 1
C1_Witness ==
    /\ pc = "done" /\ exit_code = <<1>>
    /\ raised.exc # ValidationError /\ raised.stage = "process"

\* the 'id' of an array element (Absent when it is no object or has none)
IdOf(item) == IF IsDict(item) THEN item.v["id"] ELSE Absent

\* two array elements share an id
SameId(a, b) == IdOf(a) # Absent /\ IdOf(a) = IdOf(b)

\* the input does not pass the read step or the validation step
ReadOrValidationFails ==
    \/ input_file.kind # "ok"
    \/ ~IsList(input_file.data)
    \/ \E i \in 1..Len(input_file.data.v) :
          \/ ~validate_item(input_file.data.v[i], i - 1).ok
          \/ \E j \in 1..(i - 1) :
                SameId(input_file.data.v[j], input_file.data.v[i])

\* C2: in a run whose read step or validation step fails the write step is
\* never started and the output file holds what it held before the run, in
\* every state of the run.
C2_NoOutputOnReadOrValidationFailure ==
    ReadOrValidationFails =>
        /\ output_file = output_before
        /\ \A i \in 1..Len(calls) : calls[i] # "write"
        /\ pc = "done" => (exit_code = <<1>> /\ raised.stage \in {"read", "validate"})

\* a run with an existing output file ended on a duplicate id
C2_Witness ==
    /\ pc = "done" /\ raised.stage = "validate"
    /\ raised.msg[1] = "Duplicate id found: "
    /\ output_before = OldContent /\ output_file = OldContent

\* C13: the stages a run has started are an initial part of read, validate,
\* enrich, write, each started once; a stage is started only when the one
\* before it has returned its result; once a stage raised the run is over and
\* that stage is the last one started; the output file is touched by the write
\* stage only, which comes after the read.
C13_StagesInOrder ==
    /\ Len(calls) <= Len(AllStages)
    /\ \A i \in 1..Len(calls) : calls[i] = AllStages[i]
    /\ pc # "done" =>
          /\ raised = NoExc
          /\ Len(calls) < Len(AllStages)
          /\ pc = AllStages[Len(calls) + 1]
    /\ raised # NoExc =>
          /\ pc = "done"
          /\ calls # <<>> /\ calls[Len(calls)] = raised.stage
    /\ Len(calls) >= 2 => (input_file.kind = "ok" /\ data = input_file.data)
    /\ Len(calls) >= 3 => validated_items # Unset
    /\ Len(calls) >= 4 => processed_items # Unset
    /\ Len(calls) < 1 => data = Unset
    /\ Len(calls) < 2 => validated_items = Unset
    /\ Len(calls) < 3 => processed_items = Unset
    /\ Len(calls) < 4 => output_file = output_before

\* validation of a readable array failed: read and validate ran, nothing else
C13_Witness ==
    /\ pc = "done" /\ raised.stage = "validate" /\ raised.exc = ValidationError
    /\ calls = <<"read", "validate">>
    /\ IsList(data) /\ Len(data.v) = 2
    /\ processed_items = Unset

\* positions of the error-severity records of the log
ErrorRecords == {i \in 1..Len(log) : log[i].level = "ERROR"}

\* C14: a run that returned 0 has logged the informational message
\* "Successfully processed N items" with N the number of records of the input
\* array; a run that returned 1 has logged exactly one error-severity record,
\* its last, whose text ends with the message of the exception that stopped it.
C14_OutcomeLogged ==
    /\ exit_code = <<0>> =>
          \E i \in 1..Len(log) :
              /\ log[i].level = "INFO"
              /\ Render(log[i].msg) =
                    "Successfully processed "
                    \o ToString(Len(input_file.data.v)) \o " items"
    /\ exit_code = <<1>> =>
          /\ ErrorRecords = {Len(log)}
          /\ Head(log[Len(log)].msg) \in {"Validation error: ", "Unexpected error: "}
          /\ Tail(log[Len(log)].msg) = raised.msg
          /\ raised.msg # <<>>

\* a run over three records returned 0 and logged "Successfully processed 3 items"
C14_Witness ==
    /\ exit_code = <<0>>
    /\ Len(input_file.data.v) = 3
    /\ \E i \in 1..Len(log) :
          Render(log[i].msg) = "Successfully processed 3 items"
    /\ ErrorRecords = {}

\* positions of the "Successfully processed N items" records of the log
ProcessedRecords ==
    {i \in 1..Len(log) :
        log[i].level = "INFO" /\ Head(log[i].msg) = "Successfully processed "}

\* C16: the "Successfully processed N items" record is logged by the enrich
\* step: it is in the log only when validation has succeeded and the enriched
\* list exists; it is there, once and right after the read record, whenever
\* the write is about to start or has been started, and then the record of the
\* write (success or error) follows it, also when the write failed and the run
\* returned 1; it is absent from every run whose read or validation failed.
C16_ProcessedLoggedBeforeWrite ==
    /\ ProcessedRecords # {} =>
          /\ validated_items # Unset /\ processed_items # Unset
          /\ Len(calls) >= 3
    /\ (pc = "write" \/ Len(calls) = Len(AllStages)) =>
          /\ ProcessedRecords = {2}
          /\ Render(log[2].msg) =
                "Successfully processed "
                \o ToString(Len(validated_items.v)) \o " items"
    /\ pc = "write" => Len(log) = 2
    /\ Len(calls) = Len(AllStages) =>
          /\ Len(log) = 3
          /\ \/ log[3] = Info(<<"Successfully wrote output file: ", output_path>>)
             \/ log[3] = Error(<<"Validation error: ">> \o raised.msg)
    /\ raised.stage \in {"read", "validate"} => ProcessedRecords = {}

\* the write was refused and the run returned 1 with the record in its log
C16_Witness ==
    /\ exit_code = <<1>> /\ raised.stage = "write"
    /\ raised.msg[1] = "Permission denied writing to file: "
    /\ Len(validated_items.v) = 2
    /\ Render(log[2].msg) = "Successfully processed 2 items"
    /\ log[3].level = "ERROR"

\* the exception classes the failures of a stage are raised with
KindsOfStage(stage) ==
    CASE stage = "read" -> {read_input_file(f).exc : f \in FailedFiles}
      [] stage = "validate" -> {validate_input(d).exc : d \in NonArrays}
      [] stage = "write" ->
            {write_output_file(o, <<>>).exc : o \in WriteOutcomes \ {"ok"}}
      [] OTHER -> {}

\* C9: the failures of the reader, of validation and of the writer have three
\* distinct kinds (InputError, SchemaError, OutputError), so the kind a stage's
\* failure is reported with is never a kind that failures of another stage
\* have.  The program raises ValidationError in all three stages.
C9_AsStated ==
    raised # NoExc =>
        \A other \in {"read", "validate", "write"} \ {raised.stage} :
            raised.exc \notin KindsOfStage(other)

\* a disk-full failure of the writer is raised as a ValidationError, the kind
\* of a schema violation
C9_Witness ==
    /\ pc = "done" /\ raised.stage = "write"
    /\ raised.exc = ValidationError
    /\ raised.msg[1] = "Error writing output file: "
    /\ output_file = PartialContent
    /\ log[Len(log)].msg[1] = "Validation error: "

----------------------------------------------------------------------------
(* The schema rules as the specification words them, in its order *)

Blank(str) == \A k \in 1..Len(str) : str[k] \in Whitespace

\* rule n of the eight is violated by item
RuleViolated(item, n) ==
    CASE n = 1 -> item.t # "dict"
      [] n = 2 -> item.t = "dict" /\ item.v["id"] = Absent
      [] n = 3 -> item.t = "dict" /\ item.v["name"] = Absent
      [] n = 4 -> item.t = "dict" /\ item.v["value"] = Absent
      [] n = 5 -> item.t = "dict" /\ item.v["id"] # Absent /\ item.v["id"].t # "int"
      [] n = 6 -> item.t = "dict" /\ item.v["name"] # Absent
                  /\ item.v["name"].t # "str"
      [] n = 7 -> item.t = "dict" /\ item.v["name"].t = "str"
                  /\ Blank(item.v["name"].v)
      [] n = 8 -> item.t = "dict" /\ item.v["value"] # Absent
                  /\ item.v["value"].t \notin {"int", "float"}

\* the message that reports rule n for the item at position index
RuleText(item, index, n) ==
    "Item at index " \o ToString(index) \o
    (CASE n = 1 -> " is not an object"
       [] n = 2 -> " is missing required field 'id'"
       [] n = 3 -> " is missing required field 'name'"
       [] n = 4 -> " is missing required field 'value'"
       [] n = 5 -> ": 'id' must be an integer, got " \o item.v["id"].t
       [] n = 6 -> ": 'name' must be a string, got " \o item.v["name"].t
       [] n = 7 -> ": 'name' must be a non-empty string"
       [] n = 8 -> ": 'value' must be numeric, got " \o item.v["value"].t)

RuleNumbers == 1..8
ViolatedRules(item) == {n \in RuleNumbers : RuleViolated(item, n)}
FirstViolated(item) ==
    CHOOSE n \in ViolatedRules(item) : \A m \in ViolatedRules(item) : n <= m

\* item passes every rule
SchemaValid(item) == ViolatedRules(item) = {}

----------------------------------------------------------------------------
(* Claims about validate_item (specification SpecLib) *)

\* C4: validate_item fails if and only if at least one rule is violated, with
\* a ValidationError whose message names the position and the first violated
\* rule in the order: not an object, missing id, missing name, missing value,
\* id not an integer, name not a string, name blank, value not numeric.
C4_FirstViolatedRuleReported ==
    lib.fn = "validate_item" =>
        LET item == lib.args[1]
            index == lib.args[2]
            r == lib.rets[1]
        IN  IF SchemaValid(item)
            THEN r.ok
            ELSE /\ ~r.ok
                 /\ r.exc = ValidationError
                 /\ Render(r.msg) = RuleText(item, index, FirstViolated(item))

\* a record without 'value' whose 'id' is a string reports the missing field
C4_Witness ==
    /\ lib.fn = "validate_item"
    /\ IsDict(lib.args[1])
    /\ lib.args[1].v["value"] = Absent
    /\ lib.args[1].v["id"] = PyStr(<<"a">>)
    /\ lib.args[1].v["name"] = PyStr(<<" ">>)
    /\ lib.args[2] = 1
    /\ Render(lib.rets[1].msg) = "Item at index 1 is missing required field 'value'"

\* C5: on an object holding id, name and value, a boolean id fails with
\* "'id' must be an integer, got bool"; with an integer id and a non-blank
\* string name a boolean value fails with "'value' must be numeric, got bool";
\* no accepted record has a boolean id or value.
C5_BooleansRejected ==
    (/\ lib.fn = "validate_item"
     /\ IsDict(lib.args[1])
     /\ \A f \in {"id", "name", "value"} : lib.args[1].v[f] # Absent) =>
        LET item == lib.args[1].v
            at == "Item at index " \o ToString(lib.args[2])
            r == lib.rets[1]
        IN  /\ item["id"].t = "bool" =>
                  /\ ~r.ok
                  /\ Render(r.msg) = at \o ": 'id' must be an integer, got bool"
            /\ (/\ item["id"].t = "int"
                 /\ item["name"].t = "str" /\ ~Blank(item["name"].v)
                 /\ item["value"].t = "bool") =>
                  /\ ~r.ok
                  /\ Render(r.msg) = at \o ": 'value' must be numeric, got bool"
            /\ r.ok => (item["id"].t # "bool" /\ item["value"].t # "bool")

\* value false beside a genuine id and an untrimmed name is reported as bool
C5_Witness ==
    /\ lib.fn = "validate_item"
    /\ IsDict(lib.args[1])
    /\ lib.args[1].v["id"] = PyInt(1)
    /\ lib.args[1].v["name"] = PyStr(<<" ", "a">>)
    /\ lib.args[1].v["value"] = PyBool(FALSE)
    /\ Render(lib.rets[1].msg) = "Item at index 0: 'value' must be numeric, got bool"

\* C11: a successful validate_item returns a record with exactly the keys id,
\* name and value (other keys of the input dropped), holding the input's values
\* as given (the name untrimmed), and the input record is after the call what
\* it was before.
C11_NewThreeKeyRecord ==
    (lib.fn = "validate_item" /\ lib.rets[1].ok) =>
        LET item == lib.args[1]
            out == lib.rets[1].value
        IN  /\ IsDict(out)
            /\ {k \in FieldNames : out.v[k] # Absent} = {"id", "name", "value"}
            /\ \A f \in {"id", "name", "value"} : out.v[f] = item.v[f]
            /\ lib.args[3] = item

\* a record with an extra key and the name " a" gives three keys, name " a"
C11_Witness ==
    /\ lib.fn = "validate_item" /\ lib.rets[1].ok
    /\ lib.args[1].v["extra"] = PyInt(1)
    /\ lib.args[1].v["name"] = PyStr(<<" ", "a">>)
    /\ lib.args[1].v["value"] = PyFloat("1.5")
    /\ lib.rets[1].value.v["extra"] = Absent
    /\ lib.rets[1].value.v["name"] = PyStr(<<" ", "a">>)
    /\ lib.args[3].v["extra"] = PyInt(1)

----------------------------------------------------------------------------
(* Claims about validate_input (specification SpecLib) *)

\* the message holds the piece tok
Contains(msg, tok) == \E k \in 1..Len(msg) : msg[k] = tok

\* positions (1-based) of the elements of s whose id repeats an earlier one
Repeats(s) == {j \in 1..Len(s) : \E i \in 1..(j - 1) : SameId(s[i], s[j])}
FirstRepeat(s) == CHOOSE j \in Repeats(s) : \A k \in Repeats(s) : j <= k

\* C3 as stated: whenever two elements of the array share an id, validate_input
\* fails with a message containing that id, whatever the other fields are.
C3_AsStated ==
    (lib.fn = "validate_input" /\ IsList(lib.args[1])) =>
        \A j \in Repeats(lib.args[1].v) :
            /\ ~lib.rets[1].ok
            /\ Contains(lib.rets[1].msg, ToString(IdOf(lib.args[1].v[j]).v))

\* C3 as amended: whenever two elements of the array share an id,
\* validate_input fails with a ValidationError; when every element up to and
\* including the first one whose id repeats an earlier id passes the schema
\* rules, the message is "Duplicate id found: <id>" with the id of that element.
C3_DuplicateIdFails ==
    (/\ lib.fn = "validate_input" /\ IsList(lib.args[1])
     /\ Repeats(lib.args[1].v) # {}) =>
        LET s == lib.args[1].v
            j == FirstRepeat(s)
            r == lib.rets[1]
        IN  /\ ~r.ok
            /\ r.exc = ValidationError
            /\ (\A k \in 1..j : SchemaValid(s[k])) =>
                  /\ Render(r.msg) = "Duplicate id found: " \o ToString(IdOf(s[j]).v)
                  /\ Contains(r.msg, ToString(IdOf(s[j]).v))

\* ids 2, 1, 2 with different names: the duplicate 2 is reported
C3_Witness ==
    /\ lib.fn = "validate_input" /\ IsList(lib.args[1])
    /\ Len(lib.args[1].v) = 3
    /\ \A k \in 1..3 : SchemaValid(lib.args[1].v[k])
    /\ IdOf(lib.args[1].v[1]) = PyInt(2)
    /\ IdOf(lib.args[1].v[2]) = PyInt(1)
    /\ IdOf(lib.args[1].v[3]) = PyInt(2)
    /\ lib.args[1].v[1].v["name"] # lib.args[1].v[3].v["name"]
    /\ Render(lib.rets[1].msg) = "Duplicate id found: 2"

\* C6: a successful validate_input returns as many records as the array has
\* elements, the i-th record holding exactly the id, name and value of the i-th
\* element, no two records sharing an id; the empty array gives the empty list.
C6_ValidatedInOrderAndUnique ==
    (lib.fn = "validate_input" /\ IsList(lib.args[1])) =>
        LET s == lib.args[1].v
            r == lib.rets[1]
        IN  /\ s = <<>> => (r.ok /\ r.value = <<>>)
            /\ r.ok =>
                  /\ Len(r.value) = Len(s)
                  /\ \A i \in 1..Len(s) :
                        /\ IsDict(r.value[i])
                        /\ \A f \in {"id", "name", "value"} :
                              r.value[i].v[f] = s[i].v[f]
                        /\ \A f \in FieldNames \ {"id", "name", "value"} :
                              r.value[i].v[f] = Absent
                  /\ \A i, j \in 1..Len(r.value) :
                        r.value[i].v["id"] = r.value[j].v["id"] => i = j

\* three records with ids 2, 0, 1 are returned in that order
C6_Witness ==
    /\ lib.fn = "validate_input" /\ IsList(lib.args[1])
    /\ lib.rets[1].ok
    /\ Len(lib.rets[1].value) = 3
    /\ lib.rets[1].value[1].v["id"] = PyInt(2)
    /\ lib.rets[1].value[2].v["id"] = PyInt(0)
    /\ lib.rets[1].value[3].v["id"] = PyInt(1)

\* C10: validate_input fails with "Input must be a JSON array" on every value
\* that is no array (object, string, number, boolean, null), a top-level object
\* that is itself a valid record included.
C10_NonArrayRejected ==
    (lib.fn = "validate_input" /\ lib.args[1].t # "list") =>
        /\ ~lib.rets[1].ok
        /\ lib.rets[1].exc = ValidationError
        /\ Render(lib.rets[1].msg) = "Input must be a JSON array"

\* a top-level object that passes every schema rule is rejected
C10_Witness ==
    /\ lib.fn = "validate_input"
    /\ lib.args[1].t = "dict" /\ SchemaValid(lib.args[1])
    /\ Render(lib.rets[1].msg) = "Input must be a JSON array"

\* positions (1-based) at which an element violates a schema rule or repeats
\* the id of an earlier element
FailingPositions(s) == {k \in 1..Len(s) : ~SchemaValid(s[k]) \/ k \in Repeats(s)}
FirstFailing(s) ==
    CHOOSE k \in FailingPositions(s) : \A m \in FailingPositions(s) : k <= m

\* C12: validate_input succeeds when no element violates a rule or repeats an
\* earlier id; otherwise it reports the failure of the smallest such position:
\* the first violated rule of that element if it violates one (also when it
\* repeats an earlier id), else "Duplicate id found: <id>" for its id.
C12_FirstFailingPositionReported ==
    (lib.fn = "validate_input" /\ IsList(lib.args[1])) =>
        LET s == lib.args[1].v
            r == lib.rets[1]
        IN  IF FailingPositions(s) = {}
            THEN r.ok
            ELSE LET k == FirstFailing(s) IN
                 /\ ~r.ok
                 /\ r.exc = ValidationError
                 /\ Render(r.msg) =
                       IF ~SchemaValid(s[k])
                       THEN RuleText(s[k], k - 1, FirstViolated(s[k]))
                       ELSE "Duplicate id found: " \o ToString(IdOf(s[k]).v)

\* ids 1, 1, 1 where the second element has a blank name: the schema failure
\* of position 1 is reported, not the repeated id
C12_Witness ==
    /\ lib.fn = "validate_input" /\ IsList(lib.args[1])
    /\ Len(lib.args[1].v) = 3
    /\ \A k \in 1..3 : IdOf(lib.args[1].v[k]) = PyInt(1)
    /\ SchemaValid(lib.args[1].v[1]) /\ SchemaValid(lib.args[1].v[3])
    /\ lib.args[1].v[2].v["name"] = PyStr(<<" ">>)
    /\ lib.args[1].v[2].v["value"] = PyInt(1)
    /\ Render(lib.rets[1].msg) = "Item at index 1: 'name' must be a non-empty string"

----------------------------------------------------------------------------
(* Claims about process_items (specification SpecLib) *)

\* C7: process_items returns one record per validated record, in order, each
\* with the id, name and value of its input record, processed = true and
\* name_length = the number of characters of the name as given (whitespace
\* counted), and nothing else; the empty list gives the empty list.
C7_EnrichedRecordPerInput ==
    lib.fn = "process_items" =>
        LET items == lib.args[1].v
            out == lib.rets[1]
        IN  /\ Len(out) = Len(items)
            /\ items = <<>> => out = <<>>
            /\ \A i \in 1..Len(items) :
                  /\ IsDict(out[i])
                  /\ \A f \in {"id", "name", "value"} : out[i].v[f] = items[i].v[f]
                  /\ out[i].v["processed"] = PyBool(TRUE)
                  /\ out[i].v["name_length"].t = "int"
                  /\ out[i].v["name_length"].v = Len(items[i].v["name"].v)
                  /\ out[i].v["extra"] = Absent

\* names " a" and "a" in one list get name_length 2 and 1
C7_Witness ==
    /\ lib.fn = "process_items"
    /\ Len(lib.args[1].v) = 2
    /\ lib.args[1].v[1].v["name"] = PyStr(<<" ", "a">>)
    /\ lib.args[1].v[2].v["name"] = PyStr(<<"a">>)
    /\ lib.rets[1][1].v["name_length"] = PyInt(2)
    /\ lib.rets[1][2].v["name_length"] = PyInt(1)

----------------------------------------------------------------------------
(* Claims about concurrent calls of validate_input (specification SpecCalls) *)

\* the ids of the records in a list
IdsOf(records) == {records[i].v["id"] : i \in 1..Len(records)}

\* C15: whatever the other caller does and whatever calls came before, the set
\* of seen ids of a call in progress holds exactly the ids that this call has
\* accepted, and the result of a finished call is the result validate_input
\* gives for its data alone: an array of valid records with distinct ids
\* succeeds, also when the other caller's array holds the same ids.
C15_CallsIndependent ==
    \A c \in Callers :
        /\ frames[c].state = "loop" =>
              seen_sets[c] = IdsOf(frames[c].validated_items)
        /\ frames[c].state = "done" =>
              /\ frames[c].ret = validate_input(frames[c].data)
              /\ (/\ IsList(frames[c].data)
                  /\ FailingPositions(frames[c].data.v) = {}) => frames[c].ret.ok

\* B has returned an array holding id 0 while A, which has accepted id 0 and
\* nothing else yet, is still in its loop over an array that holds id 0 once
C15_Witness ==
    /\ frames["A"].state = "loop" /\ frames["A"].index = 1
    /\ Len(frames["A"].data.v) = 2
    /\ FailingPositions(frames["A"].data.v) = {}
    /\ seen_sets["A"] = {PyInt(0)}
    /\ frames["B"].state = "done" /\ frames["B"].ret.ok
    /\ Len(frames["B"].ret.value) = 2
    /\ frames["B"].ret.value[2].v["id"] = PyInt(0)

----------------------------------------------------------------------------
(* Claims about repeated calls of process_items (specification SpecEnrich) *)

\* the records a list of references holds
Deref(refs) == [i \in 1..Len(refs) |-> heap[refs[i]]]

\* C8: at every step of every call of process_items on the same validated
\* list, the list still refers to the same records in the same order and each
\* record is as validate_input returned it; every call returns a list of
\* records equal to the list the first call returned, which is the enriched
\* copy of the validated list whatever calls were made before, and a list
\* returned earlier is not changed by a later call.
C8_EnricherRepeatable ==
    /\ enrich.items = [i \in 1..Len(enrich.validated) |-> i]
    /\ Deref(enrich.items) = enrich.validated
    /\ \A k \in 1..Len(returned) :
          /\ Deref(returned[k]) = Deref(returned[1])
          /\ Deref(returned[k]) = process_items(enrich.validated)

\* process_items has returned twice for a list of two records, one of them
\* with an untrimmed name; the two returned lists hold different objects
C8_Witness ==
    /\ Len(returned) = 2
    /\ Len(enrich.validated) = 2
    /\ enrich.validated[1].v["name"] = PyStr(<<"a", " ">>)
    /\ returned[2] # returned[1]
    /\ heap[returned[2][1]].v["name_length"] = PyInt(2)
    /\ Len(log) = 2

====
